---- MODULE Spec2Model ----
(***************************************************************************)
(* FlexibleCircuit (src/hqm/circuits/flexiblecircuit.py): a quantum layer  *)
(* built from a per-qubit gate configuration.  The model covers the        *)
(* constructor __init__, the counter __calculate_weights, the static       *)
(* factory circ and the body of the qnode it returns.                      *)
(*                                                                         *)
(* Gate tokens are Python strings; they are modelled as sequences of       *)
(* characters so that the substring test `'R' in el` is computed and not   *)
(* assumed.  A block is a sequence of rows, a row a sequence of tokens.    *)
(* The configuration is a dict: a function whose domain is the set of keys *)
(* it holds.  PennyLane itself (the embeddings, the device, the execution  *)
(* of the tape) is outside the repository: an embedding or a measurement   *)
(* is recorded as the request the qnode body makes, nothing more.          *)
(***************************************************************************)
EXTENDS Integers, Sequences, FiniteSets, TLC

\* ---------------------------------------------------------------- bounds
MaxQubits  == 3     \* rows of a block, entries of the mask, n_qubits of circ
MaxLayers  == 1     \* repetitions of the U layer (columns of the U block)
MaxWeights == 3     \* length of the weights vector passed to the qnode

\* ---------------------------------------------------------------- tokens
H     == <<"H">>
RY    == <<"R", "Y">>
CNOT1 == <<"C", "N", "O", "T", "-", "1">>

FTokens == {H, RY, CNOT1}
UTokens == {H, RY}

Encodings == {"angle", "amplitude", "basis"}

\* r rows of k columns, every cell the token t
UniformBlock(t, r, k) == [i \in 1..r |-> [j \in 1..k |-> t]]

\* a list of rows of unequal length: the first row holds one token more
RaggedBlock(r) == [i \in 1..r |-> IF i = 1 THEN <<RY, H>> ELSE <<RY>>]

IsRectangular(B) == \A i \in 1..Len(B) : Len(B[i]) = Len(B[1])

FBlocks == {UniformBlock(t, MaxQubits, 1) : t \in FTokens}
VBlocks == {UniformBlock(t, MaxQubits, 1) : t \in UTokens}
UBlocks == {UniformBlock(t, r, k) : t \in UTokens, r \in 1..MaxQubits, k \in 1..MaxLayers}
             \cup {RaggedBlock(r) : r \in 2..MaxQubits}
Masks   == UNION {[1..r -> BOOLEAN] : r \in 1..MaxQubits}

\* an optional dict entry: s is {} (key absent) or {v}
Entry(k, s) == IF s = {} THEN [x \in {} |-> x] ELSE (k :> (CHOOSE v \in s : TRUE))
Optional(S) == {{}} \cup {{v} : v \in S}

Configs ==
    {Entry("F", f) @@ Entry("V", v) @@ Entry("U", u) @@ Entry("M", m) :
        f \in Optional(FBlocks), v \in Optional(VBlocks),
        u \in Optional(UBlocks), m \in Optional(Masks)}

BlocksOf(cfg) == {cfg[k] : k \in DOMAIN cfg \cap {"F", "V", "U"}}

VARIABLES
    config,     \* the dict the host passes to __init__ and to circ
    ndarrays,   \* TRUE: the blocks are 2-D numpy arrays; FALSE: nested lists
    last        \* the host's latest call and what it produced

vars == <<config, ndarrays, last>>

NoCall == [op |-> "none", encoding |-> "none", n_qubits |-> 0, wlen |-> 0,
           err |-> "none", constructed |-> FALSE, ct |-> 0,
           ops |-> <<>>, reads |-> <<>>, meas |-> <<>>, returned |-> FALSE]

\* ------------------------------------------------- __calculate_weights
\* `'R' in el` on a string: some character of the token is R
ContainsR(el) == \E i \in 1..Len(el) : el[i] = "R"

\* list(chain(*block)): the rows concatenated, first row first
RECURSIVE Chain(_)
Chain(rows) == IF rows = <<>> THEN <<>> ELSE Head(rows) \o Chain(Tail(rows))

\* the loop `for el in ...: if 'R' in el: ct += 1`, started at ct
RECURSIVE CountR(_, _)
CountR(els, ct) ==
    IF els = <<>> THEN ct
    ELSE CountR(Tail(els), IF ContainsR(Head(els)) THEN ct + 1 ELSE ct)

\* the dict key the counter reads for the fixed component
CounterFixedKey == "V"

CalculateWeights(cfg) ==
    IF CounterFixedKey \notin DOMAIN cfg THEN [err |-> "KeyError", ct |-> 0]
    ELSE LET ct1 == CountR(Chain(cfg[CounterFixedKey]), 0) IN
         IF "U" \notin DOMAIN cfg THEN [err |-> "KeyError", ct |-> 0]
         ELSE [err |-> "none", ct |-> CountR(Chain(cfg["U"]), ct1)]

\* ------------------------------------------------------------ __init__
\* names bound at module level (the imports and the class) and the
\* parameters of __init__; any other bare name raises NameError
ModuleGlobals == {"FunctionType", "chain", "qml", "np", "sys",
                  "QuantumCircuit", "FlexibleCircuit"}
InitLocals    == {"self", "config", "dev", "encoding"}
Resolves(name) == name \in InitLocals \cup ModuleGlobals

\* `raise(f"...")`: the operand is a str, not an exception, so Python
\* raises TypeError in its place
RaiseStr == "TypeError"

InitFailed(e) == [err |-> e, constructed |-> FALSE, n_qubits |-> 0, ct |-> 0]

InitOutcome(cfg, encoding) ==
    IF ~(Resolves("n_qubits") /\ Resolves("n_layers") /\ Resolves("dev"))
        THEN InitFailed("NameError")
    ELSE IF encoding \notin {"angle", "amplitude"} THEN InitFailed(RaiseStr)
    ELSE IF "F" \notin DOMAIN cfg THEN InitFailed(RaiseStr)
    ELSE IF "U" \notin DOMAIN cfg THEN InitFailed(RaiseStr)
    ELSE IF "M" \notin DOMAIN cfg THEN InitFailed(RaiseStr)
    ELSE LET w == CalculateWeights(cfg) IN
         IF w.err # "none" THEN InitFailed(w.err)
         ELSE [err |-> "none", constructed |-> TRUE,
               n_qubits |-> Len(cfg["U"]), ct |-> w.ct]

\* --------------------------------------------------- circ and its qnode
\* an operation queued on the tape: its name, the token it came from
\* (empty for an embedding) and the wires it acts on
Op(gate, token, wires) == [gate |-> gate, token |-> token, wires |-> wires]

\* the E component: one embedding over wires=range(n_qubits), or nothing
\* for any other selector
Embedding(encoding, n_qubits) ==
    IF encoding = "angle" THEN <<Op("AngleEmbedding", <<>>, 0..(n_qubits - 1))>>
    ELSE IF encoding = "amplitude"
        THEN <<Op("AmplitudeEmbedding", <<>>, 0..(n_qubits - 1))>>
    ELSE <<>>

\* the body of the two nested gate loops: `pass`
GateLoopBody(acc, B, i, j) == acc

\* for i in range(B.shape[0]): for j in range(B.shape[1]): <body>
RECURSIVE GateLoops(_, _, _, _)
GateLoops(acc, B, i, j) ==
    IF i >= Len(B) THEN acc
    ELSE IF j >= Len(B[1]) THEN GateLoops(acc, B, i + 1, 0)
    ELSE GateLoops(GateLoopBody(acc, B, i, j), B, i, j + 1)

\* a measurement loop that forgets the mask test and measures every qubit
RECURSIVE MeasureEveryQubit(_, _, _, _)
MeasureEveryQubit(cfg, n, i, meas) ==
    IF i >= n THEN [err |-> "none", meas |-> meas]
    ELSE IF "M" \notin DOMAIN cfg THEN [err |-> "KeyError", meas |-> <<>>]
    ELSE IF i + 1 > Len(cfg["M"]) THEN [err |-> "IndexError", meas |-> <<>>]
    ELSE MeasureEveryQubit(cfg, n, i + 1, Append(meas, i))

\* the M component: for i in range(n_qubits): if config['M'][i]: append
RECURSIVE Measure(_, _, _, _)
Measure(cfg, n, i, meas) ==
    IF i >= n THEN [err |-> "none", meas |-> meas]
    ELSE IF "M" \notin DOMAIN cfg THEN [err |-> "KeyError", meas |-> <<>>]
    ELSE IF i + 1 > Len(cfg["M"]) THEN [err |-> "IndexError", meas |-> <<>>]
    ELSE Measure(cfg, n, i + 1, IF cfg["M"][i + 1] THEN Append(meas, i) ELSE meas)

QFailed(e) == [err |-> e, ops |-> <<>>, reads |-> <<>>, meas |-> <<>>, returned |-> FALSE]

\* the dict key the qnode reads for the fixed component
QNodeFixedKey == "V"

\* qnode(inputs, weights) for the closure (n_qubits, cfg, encoding); arr
\* tells whether the blocks carry a .shape.  ops is what is queued on the
\* tape, reads the indices of weights that were read.
QNodeOutcome(n_qubits, cfg, encoding, arr, wlen) ==
    LET e == [ops |-> Embedding(encoding, n_qubits), reads |-> <<>>] IN
    IF QNodeFixedKey \notin DOMAIN cfg THEN QFailed("KeyError")
    ELSE IF ~arr THEN QFailed("AttributeError")
    ELSE LET v == GateLoops(e, cfg[QNodeFixedKey], 0, 0) IN
    IF "U" \notin DOMAIN cfg THEN QFailed("KeyError")
    ELSE LET u == GateLoops(v, cfg["U"], 0, 0)
             m == Measure(cfg, n_qubits, 0, <<>>) IN
    IF m.err # "none" THEN QFailed(m.err)
    ELSE [err |-> "none", ops |-> u.ops, reads |-> u.reads,
          meas |-> m.meas, returned |-> TRUE]

\* ---------------------------------------------------------------- state
Init ==
    /\ config \in Configs
    /\ ndarrays \in BOOLEAN
    /\ ndarrays => \A B \in BlocksOf(config) : IsRectangular(B)
    /\ last = NoCall

\* FlexibleCircuit(config, dev, encoding)
Construct(encoding) ==
    /\ LET r == InitOutcome(config, encoding) IN
       last' = [NoCall EXCEPT !.op = "init", !.encoding = encoding,
                              !.err = r.err, !.constructed = r.constructed,
                              !.n_qubits = r.n_qubits, !.ct = r.ct]
    /\ UNCHANGED <<config, ndarrays>>

\* obj._FlexibleCircuit__calculate_weights(config)
CountWeights ==
    /\ LET w == CalculateWeights(config) IN
       last' = [NoCall EXCEPT !.op = "count", !.err = w.err, !.ct = w.ct]
    /\ UNCHANGED <<config, ndarrays>>

\* FlexibleCircuit.circ(dev, n_qubits, config, encoding): defines the
\* qnode and returns it; nothing is validated and nothing runs
Circ(n_qubits, encoding) ==
    /\ last' = [NoCall EXCEPT !.op = "circ", !.encoding = encoding,
                              !.n_qubits = n_qubits]
    /\ UNCHANGED <<config, ndarrays>>

\* the host holds a qnode: one circ returned, or the circuit attribute of
\* a constructed object
HoldsQNode(l) == l.op \in {"circ", "forward"} \/ l.constructed

\* qnode(inputs, weights) on the qnode the host holds
Forward(wlen) ==
    /\ HoldsQNode(last)
    /\ LET r == QNodeOutcome(last.n_qubits, config, last.encoding, ndarrays, wlen) IN
       last' = [NoCall EXCEPT !.op = "forward", !.encoding = last.encoding,
                              !.n_qubits = last.n_qubits, !.wlen = wlen,
                              !.err = r.err, !.ops = r.ops, !.reads = r.reads,
                              !.meas = r.meas, !.returned = r.returned]
    /\ UNCHANGED <<config, ndarrays>>

Next ==
    \/ \E encoding \in Encodings : Construct(encoding)
    \/ CountWeights
    \/ \E n \in 1..MaxQubits, encoding \in Encodings : Circ(n, encoding)
    \/ \E wlen \in 0..MaxWeights : Forward(wlen)

Spec == Init /\ [][Next]_vars

\* =================================================== the documented design
\* What the configuration means according to the constructor's docstring
\* (lines 29-52): F is the fixed block, U the trainable block, M the mask;
\* a token starting with R is a rotation, CNOT-k entangles with qubit k,
\* counted from 1.
RotationTokens == {RY}

Cells(B) == UNION {{<<i, j>> : j \in 1..Len(B[i])} : i \in 1..Len(B)}
Rotations(B) == Cardinality({p \in Cells(B) : B[p[1]][p[2]] \in RotationTokens})

IsEntangling(tok) == Len(tok) = 6 /\ SubSeq(tok, 1, 5) = <<"C", "N", "O", "T", "-">>
DigitOf == ("1" :> 1) @@ ("2" :> 2) @@ ("3" :> 3) @@ ("4" :> 4)
TargetIndex(tok) == DigitOf[tok[6]] - 1

\* a block holds an entangling token aimed at its own row or outside the
\* qubits 0 .. n-1
BadTarget(B, n) ==
    \E p \in Cells(B) :
        /\ IsEntangling(B[p[1]][p[2]])
        /\ \/ TargetIndex(B[p[1]][p[2]]) = p[1] - 1
           \/ TargetIndex(B[p[1]][p[2]]) \notin 0..(n - 1)

HasBlocks(cfg) == {"F", "U", "M"} \subseteq DOMAIN cfg

DimensionsAgree(cfg) ==
    /\ Len(cfg["F"]) = Len(cfg["U"])
    /\ Len(cfg["U"]) = Len(cfg["M"])
    /\ IsRectangular(cfg["F"])
    /\ IsRectangular(cfg["U"])

ValidConfig(cfg) ==
    /\ HasBlocks(cfg)
    /\ DimensionsAgree(cfg)
    /\ ~BadTarget(cfg["F"], Len(cfg["U"]))
    /\ ~BadTarget(cfg["U"], Len(cfg["U"]))

ValidEncoding(e) == e \in {"angle", "amplitude"}

\* the operations of one block, columns left to right, rows top to bottom
RECURSIVE ColumnMajor(_, _, _)
ColumnMajor(B, i, j) ==
    IF j > Len(B[1]) THEN <<>>
    ELSE IF i > Len(B) THEN ColumnMajor(B, 1, j + 1)
    ELSE <<Op("gate", B[i][j], {i - 1})>> \o ColumnMajor(B, i + 1, j)

TrueBits(cfg, n) == {i \in 0..(n - 1) : cfg["M"][i + 1]}

\* ------------------------------------------------------------------ C1
\* C1: for every valid configuration the parameter count computed at
\* construction (and by the counter called on its own) is the number of
\* rotation tokens of fixedBlock plus that of trainableBlock.
C1_CountIsRotationsOfFAndU ==
    (/\ last.op \in {"init", "count"}
     /\ ValidConfig(config)
     /\ last.op = "init" => ValidEncoding(last.encoding))
    => /\ last.err = "none"
       /\ last.ct = Rotations(config["F"]) + Rotations(config["U"])

\* ------------------------------------------------------------------ C2
\* C2: a forward call that returns lists exactly the qubits i of
\* 0 .. n_qubits-1 whose mask entry is true, in strictly ascending order,
\* each once, so as many requests as there are such qubits.
C2_MeasurementsAreMaskFiltered ==
    (last.op = "forward" /\ last.returned)
    => /\ \A k \in 1..Len(last.meas) : last.meas[k] \in TrueBits(config, last.n_qubits)
       /\ \A i \in TrueBits(config, last.n_qubits) :
              \E k \in 1..Len(last.meas) : last.meas[k] = i
       /\ \A k \in 1..Len(last.meas), l \in 1..Len(last.meas) :
              k < l => last.meas[k] < last.meas[l]
       /\ Len(last.meas) = Cardinality(TrueBits(config, last.n_qubits))

\* the mask [true, false, true] on three qubits gave qubit 0 then qubit 2
C2_Witness ==
    /\ last.op = "forward"
    /\ last.returned
    /\ last.n_qubits = 3
    /\ "M" \in DOMAIN config
    /\ config["M"] = <<TRUE, FALSE, TRUE>>
    /\ last.meas = <<0, 2>>

\* ------------------------------------------------------------------ C3
\* C3: when the weights have the length the counter declared, a forward
\* call reads every slot once, in order: slot 0, 1, ... up to the count.
C3_AssemblyConsumesEverySlot ==
    (/\ last.op = "forward"
     /\ last.returned
     /\ ValidConfig(config)
     /\ last.n_qubits = Len(config["M"])
     /\ CalculateWeights(config).err = "none"
     /\ last.wlen = CalculateWeights(config).ct)
    => last.reads = [k \in 1..last.wlen |-> k - 1]

\* ------------------------------------------------------------------ C4
\* C4: construction from a configuration that lacks F, U or M fails with
\* a missing-block error, before any count or circuit exists.
C4_MissingBlockIsReported ==
    (last.op = "init" /\ ~HasBlocks(config))
    => /\ last.err = "MissingBlockError"
       /\ ~last.constructed
       /\ last.ct = 0

\* ------------------------------------------------------------------ C5
\* C5: with no rotation token in F and U, construction succeeds with a
\* count of 0, and a forward call with no weights returns one result per
\* true mask entry.
C5_NoRotationsNeedNoWeights ==
    (/\ ValidConfig(config)
     /\ Rotations(config["F"]) + Rotations(config["U"]) = 0
     /\ ValidEncoding(last.encoding))
    => /\ last.op = "init" => (last.constructed /\ last.ct = 0)
       /\ (last.op = "forward" /\ last.wlen = 0 /\ last.n_qubits = Len(config["M"]))
          => /\ last.returned
             /\ Len(last.meas) = Cardinality(TrueBits(config, last.n_qubits))

\* ------------------------------------------------------------------ C6
\* C6: an encoding selector other than angle and amplitude is refused at
\* construction with an invalid-encoding error, so a forward call never
\* returns for such a selector.
C6_InvalidEncodingIsRefused ==
    /\ (last.op = "init" /\ ~ValidEncoding(last.encoding))
       => last.err = "InvalidEncodingError"
    /\ (last.op = "forward" /\ last.returned) => ValidEncoding(last.encoding)

\* ------------------------------------------------------------------ C7
\* C7: construction fails with a dimension-mismatch error when the row
\* counts of F, U and M differ or a block is not rectangular; a
\* constructed object has len(F) = len(U) = len(M) = n_qubits.
C7_DimensionMismatchIsRefused ==
    /\ (last.op = "init" /\ HasBlocks(config) /\ ~DimensionsAgree(config))
       => last.err = "DimensionMismatchError"
    /\ last.constructed
       => (DimensionsAgree(config) /\ last.n_qubits = Len(config["M"]))

\* ------------------------------------------------------------------ C8
\* C8: construction fails with an invalid-target error when an entangling
\* token aims at its own row or outside the qubits; every two-qubit
\* operation of a circuit has distinct wires inside 0 .. n_qubits-1.
C8_InvalidTargetIsRefused ==
    /\ (/\ last.op = "init"
        /\ HasBlocks(config)
        /\ DimensionsAgree(config)
        /\ \/ BadTarget(config["F"], Len(config["U"]))
           \/ BadTarget(config["U"], Len(config["U"])))
       => last.err = "InvalidTargetError"
    /\ \A k \in 1..Len(last.ops) :
           IsEntangling(last.ops[k].token)
           => /\ last.ops[k].wires \subseteq 0..(last.n_qubits - 1)
              /\ Cardinality(last.ops[k].wires) = 2

\* ------------------------------------------------------------------ C9
\* C9: a forward call whose weights are fewer than the rotation tokens of
\* the configuration fails with a parameter-underflow error and hands
\* nothing on.
C9_ShortWeightsAbort ==
    (/\ last.op = "forward"
     /\ ValidConfig(config)
     /\ QNodeFixedKey \in DOMAIN config
     /\ ndarrays
     /\ last.n_qubits = Len(config["M"])
     /\ last.wlen < Rotations(config["F"]) + Rotations(config["U"]))
    => /\ last.err = "ParameterUnderflowError"
       /\ ~last.returned
       /\ last.ops = <<>>

\* ------------------------------------------------------------------ C10
\* C10: a forward call that returns has queued the embedding, then one
\* operation per token of the fixed block, then one per token of the
\* trainable block, each block column by column, and has read the weights
\* 0, 1, ... one per rotation token.
C10_OperationsFollowTheBlocks ==
    (/\ last.op = "forward"
     /\ last.returned
     /\ ValidConfig(config)
     /\ last.n_qubits = Len(config["M"]))
    => /\ last.ops = Embedding(last.encoding, last.n_qubits)
                       \o ColumnMajor(config["F"], 1, 1)
                       \o ColumnMajor(config["U"], 1, 1)
       /\ Len(last.reads) = Rotations(config["F"]) + Rotations(config["U"])

====
